---- MODULE Spec2Model ----
(***************************************************************************)
(* The GDB build recipe of cheribuild (pycheribuild/projects/cross/gdb.py): *)
(* the scoped toolchain shadowing TemporarilyRemoveProgramsFromSdk and the  *)
(* lifecycle setup -> configure -> compile -> install of BuildGDB.          *)
(***************************************************************************)
EXTENDS Integers, Sequences, FiniteSets, TLC

\* ------------------------------------------------------------------ bounds

\* stale <name>.backup files lying in the install directory before compile()
MaxStale == 1
\* files a make sub-invocation may create in the install directory
MaxNewFiles == 1

\* --------------------------------------------------------------- constants

\* gdb.py:203, the programs compile() hands to TemporarilyRemoveProgramsFromSdk
programs == <<"as", "ld", "objcopy", "objdump">>

\* gdb.py:51 and gdb.py:58, prog + ".backup"
backup(prog) == prog \o ".backup"

ProgramNames == {programs[k] : k \in 1..Len(programs)}
BackupNames == {backup(p) : p \in ProgramNames}
FileNames == ProgramNames \cup BackupNames

\* gdb.py:80-83, supported_architectures
supported_architectures ==
    {"NATIVE", "CHERIBSD_MIPS_HYBRID", "CHERIBSD_RISCV_HYBRID",
     "CHERIBSD_MIPS_NO_CHERI", "CHERIBSD_RISCV_NO_CHERI",
     "CHERIBSD_AARCH64", "CHERIBSD_MORELLO_HYBRID"}

\* the two directories the recipe names: self.install_dir (gdb.py:204, 232)
\* and self.sdk_bindir (gdb.py:187-189)
Dirs == {"install_dir", "sdk_bindir"}

\* the directory compile() passes as the third constructor argument
\* (gdb.py:203-204): it is stored as TemporarilyRemoveProgramsFromSdk.sdk_bindir
shadowed_dir == "install_dir"

\* what a file name holds: nothing, the file that was there under its original
\* name before compile(), a <name>.backup left by an earlier run, or a file
\* written by a make sub-invocation
Contents == {"absent", "orig", "stale", "new"}

VARIABLES
    xtarget,                \* self._xtarget / self.crosscompile_target
    IS_MAC,                 \* OSInfo.IS_MAC
    pretend,                \* self.config.pretend
    fs,                     \* fs[dir][name]: the files of the two directories
    fs0,                    \* fs as it was when compile() was called
    purecap_usr_exists,     \* whether (purecap_rootfs / "usr") exists
    destdir,                \* the DESTDIR the project installs under, or "none"
    stage,                  \* lifecycle stage: setup, configure, compile, install
    pc,                     \* position inside the stage
    i,                      \* loop index of __enter__ / __exit__ over programs
    pos,                    \* index of the next make target of compile()
    make_log,               \* the run_make invocations so far: [target, env, result]
    make_written,           \* the names make has written in the shadowed directory
    exc,                    \* the exception in flight, innermost context first
    exit_calls,             \* how often __exit__ has been called
    configure_args,         \* self.configure_args
    configure_environment,  \* self.configure_environment
    setup_env,              \* configure_environment as setup() left it
    make_env,               \* self.make_args.env_vars
    flags,                  \* COMMON_FLAGS, LDFLAGS, CXXFLAGS and the warning flags
    configure_log,          \* the configure invocations so far: [args, env]
    install_log             \* what install() did, in order

vars == <<xtarget, IS_MAC, pretend, fs, fs0, purecap_usr_exists, destdir, stage, pc, i,
          pos, make_log, make_written, exc, exit_calls, configure_args,
          configure_environment,
          setup_env, make_env, flags, configure_log, install_log>>

\* what the project is built for and where: never assigned after construction
inputs == <<xtarget, IS_MAC, pretend, fs0, purecap_usr_exists, destdir>>

config_vars == <<configure_args, configure_environment, setup_env, make_env, flags,
                 configure_log>>

\* ----------------------------------------------------- framework predicates

compiling_for_host(t) == t = "NATIVE"

is_cheribsd(t) == t # "NATIVE"

compiling_for_cheri_hybrid(t) ==
    t \in {"CHERIBSD_MIPS_HYBRID", "CHERIBSD_RISCV_HYBRID", "CHERIBSD_MORELLO_HYBRID"}

\* run_command raises when the command exits non-zero; in pretend mode the
\* command is only printed, so it cannot fail and changes nothing
run_command_outcomes(p) == IF p THEN {"ok"} ELSE {"ok", "fail"}

\* run_make raises when make exits non-zero; in pretend mode it is only printed
run_make_outcomes(p) == IF p THEN {"ok"} ELSE {"ok", "fail"}

\* ------------------------------------------------------------ file system

exists(files, name) == files[name] # "absent"

\* mv -f src dst (gdb.py:51, 58): dst is replaced by src, src is gone
mv_f(files, src, dst) == [files EXCEPT ![dst] = files[src], ![src] = "absent"]

\* ------------------------------------- TemporarilyRemoveProgramsFromSdk

AfterEnter == IF i < Len(programs) THEN i' = i + 1 /\ pc' = "enter"
                                   ELSE i' = 1 /\ pc' = "body"

\* one iteration of the loop of __enter__ (gdb.py:49-51); after the last one
\* __enter__ returns and the body of the with statement starts
enter ==
    /\ stage = "compile" /\ pc = "enter"
    /\ LET prog == programs[i]
           dir == fs[shadowed_dir]
       IN  IF exists(dir, prog)
           THEN \E outcome \in run_command_outcomes(pretend) :
                  \/ /\ outcome = "ok"
                     /\ fs' = IF pretend THEN fs
                              ELSE [fs EXCEPT ![shadowed_dir] = mv_f(dir, prog, backup(prog))]
                     /\ AfterEnter
                     /\ exc' = exc
                  \/ /\ outcome = "fail"
                     \* __enter__ raised: the with statement never calls __exit__
                     /\ exc' = Append(exc, "mv")
                     /\ pc' = "raised"
                     /\ UNCHANGED <<fs, i>>
           ELSE /\ AfterEnter
                /\ UNCHANGED <<fs, exc>>
    /\ UNCHANGED <<inputs, stage, pos, make_log, make_written, exit_calls,
                   install_log>>
    /\ UNCHANGED config_vars

\* the condition of gdb.py:57
exit_restores_mutant(files, prog, p) ==
    (exists(files, backup(prog)) /\ ~exists(files, prog)) \/ p
exit_restores(files, prog, p) == exists(files, backup(prog)) \/ p

\* the value __exit__ returns (gdb.py:59): False, the exception is not swallowed
exit_return_mutant == TRUE
exit_return == FALSE

\* after the last iteration __exit__ returns exit_return: an exception in flight
\* propagates unless the return value is true
AfterExit ==
    IF i < Len(programs)
    THEN i' = i + 1 /\ pc' = "exit" /\ exc' = exc
    ELSE /\ i' = 1
         /\ IF exc # <<>> /\ ~exit_return
            THEN pc' = "raised" /\ exc' = exc
            ELSE pc' = "returned" /\ exc' = <<>>

\* one iteration of the loop of __exit__ (gdb.py:56-58)
exit ==
    /\ stage = "compile" /\ pc = "exit"
    /\ LET prog == programs[i]
           dir == fs[shadowed_dir]
       IN  IF exit_restores(dir, prog, pretend)
           THEN \E outcome \in run_command_outcomes(pretend) :
                  \/ /\ outcome = "ok"
                     /\ fs' = IF pretend THEN fs
                              ELSE [fs EXCEPT ![shadowed_dir] = mv_f(dir, backup(prog), prog)]
                     /\ AfterExit
                  \/ /\ outcome = "fail"
                     \* raised inside __exit__: it replaces the exception in
                     \* flight, which stays as its context
                     /\ exc' = Append(exc, "mv")
                     /\ pc' = "raised"
                     /\ UNCHANGED <<fs, i>>
           ELSE /\ AfterExit
                /\ UNCHANGED fs
    /\ UNCHANGED <<inputs, stage, pos, make_log, make_written, exit_calls,
                   install_log>>
    /\ UNCHANGED config_vars

\* --------------------------------------------------------- BuildGDB.compile

\* the make targets of the body of compile(), in order (gdb.py:206-210)
compile_targets_mutant(t) == <<"all-binutils", "all-gdb", "all-ld">>
compile_targets(t) ==
    <<"all-binutils", "all-gdb">> \o (IF compiling_for_host(t) THEN <<"all-ld">> ELSE <<>>)

\* compile() is called: the context manager is built and __enter__ starts
compile ==
    /\ stage = "compile" /\ pc = "call"
    /\ pc' = "enter" /\ i' = 1 /\ pos' = 1
    /\ UNCHANGED <<inputs, fs, stage, make_log, make_written, exc, exit_calls,
                   install_log>>
    /\ UNCHANGED config_vars

\* self.run_make(make_target=...) starts (gdb.py:206, 207, 210) with the
\* environment of self.make_args
run_make ==
    /\ stage = "compile" /\ pc = "body"
    /\ pos <= Len(compile_targets(xtarget))
    /\ make_log' = Append(make_log, [target |-> compile_targets(xtarget)[pos],
                                     env |-> make_env, result |-> "running"])
    /\ pc' = "making"
    /\ UNCHANGED <<inputs, fs, stage, i, pos, make_written, exc, exit_calls,
                   install_log>>
    /\ UNCHANGED config_vars

\* the running make writes a file named like one of the programs into the
\* shadowed directory
make_writes ==
    /\ stage = "compile" /\ pc = "making" /\ ~pretend
    /\ Cardinality(make_written) < MaxNewFiles
    /\ \E name \in ProgramNames \ make_written :
          /\ fs' = [fs EXCEPT ![shadowed_dir][name] = "new"]
          /\ make_written' = make_written \cup {name}
    /\ UNCHANGED <<inputs, stage, pc, i, pos, make_log, exc, exit_calls, install_log>>
    /\ UNCHANGED config_vars

\* the running make ends; the with statement calls __exit__ when the body is
\* left, by its end or by an exception
make_ends ==
    /\ stage = "compile" /\ pc = "making"
    /\ \E outcome \in run_make_outcomes(pretend) :
          /\ make_log' = [make_log EXCEPT ![Len(make_log)].result = outcome]
          /\ \/ /\ outcome = "ok"
                /\ pos' = pos + 1
                /\ exc' = exc
                /\ IF pos < Len(compile_targets(xtarget))
                   THEN pc' = "body" /\ exit_calls' = exit_calls
                   ELSE pc' = "exit" /\ exit_calls' = exit_calls + 1
             \/ /\ outcome = "fail"
                /\ exc' = Append(exc, "make")
                /\ pc' = "exit" /\ exit_calls' = exit_calls + 1
                /\ pos' = pos
    /\ i' = 1
    /\ UNCHANGED <<inputs, fs, stage, make_written, install_log>>
    /\ UNCHANGED config_vars

\* ----------------------------------------------------------- BuildGDB.setup

\* dict.update: the entries of kv are added to env, replacing those it has
update(env, kv) ==
    [k \in DOMAIN env \cup DOMAIN kv |-> IF k \in DOMAIN kv THEN kv[k] ELSE env[k]]

\* self.make_args.set_env(**kwargs): the entries are copied into the
\* environment every make invocation gets
set_env(env, kwargs) == update(env, kwargs)

\* self.add_configure_env_arg(arg, value): a tool path handed to configure as
\* an environment variable
add_configure_env_arg(env, arg, value) == update(env, (arg :> value))

\* gdb.py:101
install_root(t) == IF compiling_for_host(t) THEN "<install_dir>" ELSE "<install_prefix>"

\* gdb.py:107, the flag that selects building ld
ld_flag_mutant(t) == "--enable-ld=yes"
ld_flag(t) == IF compiling_for_host(t) THEN "--enable-ld=yes" ELSE "--disable-ld"

\* gdb.py:104-123 and gdb.py:150-156: what setup() appends to configure_args
setup_configure_args(t, is_macos) ==
    << "--disable-nls",
       "--enable-tui",
       ld_flag(t),
       "--disable-gold",
       "--enable-64-bit-bfd",
       "--without-gnu-as",
       "--mandir=" \o install_root(t) \o "/man",
       "--infodir=" \o install_root(t) \o "/info",
       "--disable-werror",
       "MAKEINFO=<which false>",
       "--with-gdb-datadir=" \o install_root(t) \o "/share/gdb",
       "--disable-libstdcxx",
       "--with-guile=no" >>
    \o (IF compiling_for_host(t) /\ is_macos
        THEN <<"--target=x86_64-unknown-freebsd13">> ELSE <<>>)
    \o <<"--enable-targets=all">>
    \o (IF compiling_for_host(t)
        THEN <<"--with-expat", "--with-python=<sys.executable>">>
        ELSE <<"--without-python", "--without-expat", "--without-libunwind-ia64">>)

\* gdb.py:138-176: what setup() appends to the flag lists
setup_flags(f, t, should_include_debug_info) ==
    [ common_warning_flags |->
          f.common_warning_flags \o <<"-Wno-mismatched-tags", "-Wno-unknown-warning-option",
                                      "-Werror=implicit-function-declaration">>,
      CXXFLAGS |-> f.CXXFLAGS \o <<"-Wno-mismatched-tags">>,
      COMMON_FLAGS |->
          f.COMMON_FLAGS
          \o (IF should_include_debug_info THEN <<"-g">> ELSE <<>>)
          \o <<"-fcommon">>
          \o (IF compiling_for_host(t) THEN <<>>
              ELSE <<"-static", "-DRL_NO_COMPAT", "-DLIBICONV_PLUG", "-fno-strict-aliasing">>),
      cross_warning_flags |->
          f.cross_warning_flags \o <<"-Wno-error=format", "-Wno-error=incompatible-pointer-types">>,
      LDFLAGS |->
          f.LDFLAGS \o (IF compiling_for_host(t) THEN <<"-L/usr/local/lib">>
                        ELSE <<"--static", "-lelf">>) ]

\* gdb.py:157-189: the configure environment setup() leaves
setup_configure_environment(env, t, make_command) ==
    LET cross == IF compiling_for_host(t) THEN env
                 ELSE update(update(env,
                        [ gl_cv_func_gettimeofday_clobber |-> "no",
                          lt_cv_sys_max_cmd_len |-> "262144",
                          am_cv_CC_dependencies_compiler_type |-> "gcc3",
                          MAKEINFO |-> "/bin/false" ]),
                        [ CONFIGURED_M4 |-> "m4", CONFIGURED_BISON |-> "byacc",
                          TMPDIR |-> "/tmp", LIBS |-> "" ])
        make == IF make_command = "gmake" THEN update(cross, [MAKE |-> "gmake"]) ELSE cross
        build == update(make, [ CC_FOR_BUILD |-> "<host_CC>", CXX_FOR_BUILD |-> "<host_CXX>",
                                CFLAGS_FOR_BUILD |-> "-g -fcommon",
                                CXXFLAGS_FOR_BUILD |-> "-g -fcommon" ])
    IN  IF compiling_for_host(t) THEN build
        ELSE add_configure_env_arg(
               add_configure_env_arg(
                 add_configure_env_arg(build, "AR", "<sdk_bindir>/ar"),
                 "RANLIB", "<sdk_bindir>/ranlib"),
               "NM", "<sdk_bindir>/nm")

\* setup() (gdb.py:99-193); its last statement copies the configure
\* environment into the environment of make
setup ==
    /\ stage = "setup" /\ pc = "call"
    /\ \E should_include_debug_info \in BOOLEAN, make_command \in {"make", "gmake"} :
          LET env == setup_configure_environment(configure_environment, xtarget, make_command)
          IN  /\ configure_args' = configure_args \o setup_configure_args(xtarget, IS_MAC)
              /\ flags' = setup_flags(flags, xtarget, should_include_debug_info)
              /\ configure_environment' = env
              /\ setup_env' = env
              /\ make_env' = set_env(make_env, env)
    /\ stage' = "configure"
    /\ UNCHANGED <<inputs, fs, pc, i, pos, make_log, make_written, exc, exit_calls,
                   configure_log, install_log>>

\* ------------------------------------------------------- BuildGDB.configure

\* gdb.py:196-197: on a macOS host the configure environment is cleared
configure_clears_mutant(t, is_mac) == compiling_for_host(t)
configure_clears(t, is_mac) == compiling_for_host(t) /\ is_mac

\* configure() (gdb.py:195-200): super().configure() runs ./configure with
\* configure_args and configure_environment
configure ==
    /\ stage = "configure" /\ pc = "call"
    /\ LET env == IF configure_clears(xtarget, IS_MAC) THEN [k \in {} |-> ""]
                  ELSE configure_environment
       IN  /\ configure_environment' = env
           /\ configure_log' = Append(configure_log, [args |-> configure_args, env |-> env])
    /\ \E outcome \in run_command_outcomes(pretend) :
          \/ outcome = "ok" /\ stage' = "compile" /\ exc' = exc /\ pc' = pc
          \/ outcome = "fail" /\ stage' = stage /\ exc' = Append(exc, "configure") /\ pc' = "raised"
    /\ UNCHANGED <<inputs, fs, i, pos, make_log, make_written, exit_calls,
                   configure_args, setup_env, make_env, flags, install_log>>

\* --------------------------------------------------------- BuildGDB.install

\* gdb.py:231
binutils == <<"objdump", "objcopy", "addr2line", "readelf", "ar", "ranlib", "size", "strings">>

\* gdb.py:233-240: the install_file calls for the host, in order, each from a
\* path under build_dir to a path under install_dir
host_install_files_mutant ==
    [k \in 1..Len(binutils) |->
        [src |-> "binutils/" \o binutils[k], dst |-> "bin/g" \o binutils[k]]]
    \o << [src |-> "binutils/c++filt", dst |-> "bin/gc++filt"],
          [src |-> "binutils/nm", dst |-> "bin/gnm"],
          [src |-> "binutils/strip", dst |-> "bin/gstrip"],
          [src |-> "ld/ld-new", dst |-> "bin/ld.bfd"],
          [src |-> "ld/ld-new", dst |-> "bin/gld.bfd"] >>
host_install_files ==
    [k \in 1..Len(binutils) |->
        [src |-> "binutils/" \o binutils[k], dst |-> "bin/g" \o binutils[k]]]
    \o << [src |-> "binutils/cxxfilt", dst |-> "bin/gc++filt"],
          [src |-> "binutils/nm-new", dst |-> "bin/gnm"],
          [src |-> "binutils/strip-new", dst |-> "bin/gstrip"],
          [src |-> "ld/ld-new", dst |-> "bin/ld.bfd"],
          [src |-> "ld/ld-new", dst |-> "bin/gld.bfd"] >>

\* gdb.py:230
install_copies(t) == IF compiling_for_host(t) THEN host_install_files ELSE <<>>

\* gdb.py:214
installs_to_purecap_mutant(t) == is_cheribsd(t)
installs_to_purecap(t) == is_cheribsd(t) /\ compiling_for_cheri_hybrid(t)

\* gdb.py:223: the environment of the second pass
purecap_install_env(env) == update(env, [DESTDIR |-> "<purecap_rootfs>"])

\* one self.run_make_install(target="install-gdb", ...) call and how it ended
make_install(env, outcome) ==
    [op |-> "run_make_install", target |-> "install-gdb", env |-> env, result |-> outcome]

\* one self.install_file(src, dst) call and how it ended
install_file(f, outcome) ==
    [op |-> "install_file", src |-> f.src, dst |-> f.dst, result |-> outcome]

\* gdb.py:214-226: the purecap part of install(), given whether
\* (purecap_rootfs / "usr") exists, the install environment and the outcome of
\* the second pass: the calls it makes and the exception it raises, if any
install_purecap_mutant(t, purecap_exists, env, outcome2) ==
    IF is_cheribsd(t) /\ compiling_for_cheri_hybrid(t) /\ purecap_exists
    THEN [log |-> <<make_install(update(env, [DESTDIR |-> "<purecap_rootfs>"]), outcome2)>>,
          exc |-> IF outcome2 = "ok" THEN <<>> ELSE <<"make">>]
    ELSE [log |-> <<>>, exc |-> <<>>]
install_purecap(t, purecap_exists, env, outcome2) ==
    IF installs_to_purecap(t) /\ purecap_exists
    THEN IF "DESTDIR" \notin DOMAIN env
         THEN [log |-> <<>>, exc |-> <<"AssertionError">>]
         ELSE [log |-> <<make_install(purecap_install_env(env), outcome2)>>,
               exc |-> IF outcome2 = "ok" THEN <<>> ELSE <<"make">>]
    ELSE [log |-> <<>>, exc |-> <<>>]

\* the install_file calls made when the copy_fails-th one fails (0: none
\* fails): the calls before it succeed and none follows it
copies_done(t, copy_fails) ==
    LET files == install_copies(t)
    IN  IF copy_fails = 0
        THEN [k \in 1..Len(files) |-> install_file(files[k], "ok")]
        ELSE [k \in 1..copy_fails |->
                 install_file(files[k], IF k = copy_fails THEN "fail" ELSE "ok")]

\* self.make_install_env: the environment of make, with DESTDIR when the
\* project installs under one
make_install_env(env, dd) == IF dd = "none" THEN env ELSE update(env, [DESTDIR |-> dd])

\* install() (gdb.py:212-240)
install ==
    /\ stage = "compile" /\ pc = "returned"
    /\ stage' = "install"
    /\ \E outcome1 \in run_make_outcomes(pretend), outcome2 \in run_make_outcomes(pretend),
          copy_fails \in 0..Len(install_copies(xtarget)) :
          LET env == make_install_env(make_env, destdir)
              first == <<make_install(env, outcome1)>>
              purecap == install_purecap(xtarget, purecap_usr_exists, env, outcome2)
          IN  \/ /\ outcome1 = "fail"
                 /\ install_log' = first
                 /\ exc' = <<"make">> /\ pc' = "raised"
              \/ /\ outcome1 = "ok" /\ purecap.exc # <<>>
                 /\ install_log' = first \o purecap.log
                 /\ exc' = purecap.exc /\ pc' = "raised"
              \/ /\ outcome1 = "ok" /\ purecap.exc = <<>>
                 /\ copy_fails = 0 \/ ~pretend
                 /\ install_log' = first \o purecap.log \o copies_done(xtarget, copy_fails)
                 /\ IF copy_fails = 0 THEN exc' = <<>> /\ pc' = "returned"
                    ELSE exc' = <<"install_file">> /\ pc' = "raised"
    /\ UNCHANGED <<inputs, fs, i, pos, make_log, make_written, exit_calls>>
    /\ UNCHANGED config_vars

\* ------------------------------------------------------------ initial state

\* the install directory before compile(): any of the programs, and at most
\* MaxStale stale backups
InstallDirs ==
    {f \in [FileNames -> {"absent", "orig", "stale"}] :
        /\ \A p \in ProgramNames : f[p] \in {"absent", "orig"}
        /\ \A b \in BackupNames : f[b] \in {"absent", "stale"}
        /\ Cardinality({b \in BackupNames : f[b] = "stale"}) <= MaxStale}

\* the SDK binary directory: an SDK that holds the four programs, or none yet
SdkBindirs ==
    {[n \in FileNames |-> IF n \in ProgramNames /\ full THEN "orig" ELSE "absent"] :
        full \in BOOLEAN}

EmptyEnv == [k \in {} |-> ""]

\* the flag lists before setup(): what the base project leaves
EmptyFlags ==
    [ common_warning_flags |-> <<>>, CXXFLAGS |-> <<>>, COMMON_FLAGS |-> <<>>,
      cross_warning_flags |-> <<>>, LDFLAGS |-> <<>> ]

\* compile() alone, from every install directory: the project is set up and
\* configured (on a host that is not macOS, with make, without debug info)
InitCompile ==
    /\ xtarget \in {"NATIVE", "CHERIBSD_RISCV_HYBRID"}
    /\ IS_MAC = FALSE
    /\ pretend \in BOOLEAN
    /\ \E a \in InstallDirs, b \in SdkBindirs :
          fs = [d \in Dirs |-> IF d = "install_dir" THEN a ELSE b]
    /\ fs0 = fs
    /\ purecap_usr_exists = FALSE
    /\ destdir = IF compiling_for_host(xtarget) THEN "none" ELSE "<destdir>"
    /\ stage = "compile" /\ pc = "call"
    /\ i = 1 /\ pos = 1
    /\ make_log = <<>> /\ make_written = {} /\ exc = <<>> /\ exit_calls = 0
    /\ configure_args = setup_configure_args(xtarget, IS_MAC)
    /\ configure_environment = setup_configure_environment(EmptyEnv, xtarget, "make")
    /\ setup_env = configure_environment
    /\ make_env = set_env(EmptyEnv, configure_environment)
    /\ flags = setup_flags(EmptyFlags, xtarget, FALSE)
    /\ configure_log = <<[args |-> configure_args, env |-> configure_environment]>>
    /\ install_log = <<>>

NextCompile == compile \/ enter \/ run_make \/ make_writes \/ make_ends \/ exit

SpecCompile == InitCompile /\ [][NextCompile]_vars

\* the whole lifecycle, with a built SDK and an install directory that holds
\* all four programs or none of them, and no stale backup
Init ==
    /\ xtarget \in supported_architectures
    /\ IS_MAC \in BOOLEAN
    /\ pretend \in BOOLEAN
    /\ \E a \in {f \in InstallDirs : /\ \A p, q \in ProgramNames : f[p] = f[q]
                                      /\ \A n \in BackupNames : f[n] = "absent"},
          b \in {g \in SdkBindirs : \A p \in ProgramNames : g[p] = "orig"} :
          fs = [d \in Dirs |-> IF d = "install_dir" THEN a ELSE b]
    /\ fs0 = fs
    /\ purecap_usr_exists \in BOOLEAN
    /\ destdir \in {"none", "<destdir>"}
    /\ stage = "setup" /\ pc = "call"
    /\ i = 1 /\ pos = 1
    /\ make_log = <<>> /\ make_written = {} /\ exc = <<>> /\ exit_calls = 0
    /\ configure_args = <<>> /\ configure_environment = EmptyEnv
    /\ setup_env = EmptyEnv
    /\ make_env = EmptyEnv /\ flags = EmptyFlags
    /\ configure_log = <<>> /\ install_log = <<>>

Next ==
    \/ setup \/ configure
    \/ compile \/ enter \/ run_make \/ make_writes \/ make_ends \/ exit
    \/ install

Spec == Init /\ [][Next]_vars

\* ------------------------------------------------------------------ claims

Range(seq) == {seq[k] : k \in 1..Len(seq)}

\* compile() has returned, normally or by raising
CompileReturned ==
    \/ stage = "compile" /\ pc \in {"returned", "raised"}
    \/ stage = "install"

\* the shadowed directory now, and when compile() was called
Now == fs[shadowed_dir]
Before == fs0[shadowed_dir]

\* no stale <name>.backup was in the shadowed directory before compile()
NoStaleBefore == \A p \in ProgramNames : ~exists(Before, backup(p))

\* the body of C1: no <name>.backup is left and every program that was there
\* before the call is there again under its own name
ShadowUndone ==
    \A p \in ProgramNames :
        /\ ~exists(Now, backup(p))
        /\ exists(Before, p) => exists(Now, p)

\* C1: after compile() has returned, whether every make succeeded or a make or
\* a rename command failed, the shadowed directory holds no <name>.backup file
\* and every program that was there before the call is there again under its
\* own name. Stated for a directory that held no stale backup before the call,
\* so that a backup found afterwards is one this compile() made.
C1_ShadowUndoneOnEveryExit ==
    (CompileReturned /\ NoStaleBefore) => ShadowUndone

\* beside C1: in a run that is no dry run and in which no rename command
\* failed, the shadow is undone however the makes ended
C1_ShadowUndoneUnlessRenameFails ==
    (CompileReturned /\ ~pretend /\ "mv" \notin Range(exc)) => ShadowUndone

\* C2: the make targets of compile() are invoked in the order all-binutils,
\* all-gdb, all-ld; all-gdb is started only once all-binutils has succeeded,
\* all-ld only for the host and only once all-gdb has succeeded, and once
\* all-gdb has succeeded and the body is left, all-ld has been invoked exactly
\* if the target is the host.
C2_MakeOrder ==
    LET n == Len(make_log)
        order == <<"all-binutils", "all-gdb", "all-ld">>
    IN  /\ n <= 3
        /\ \A k \in 1..n : make_log[k].target = order[k]
        /\ n >= 2 => make_log[1].result = "ok"
        /\ n >= 3 => xtarget = "NATIVE" /\ make_log[2].result = "ok"
        /\ (n >= 2 /\ make_log[2].result = "ok" /\ (stage # "compile" \/ pc \notin {"body", "making"}))
              => (n = 3 <=> xtarget = "NATIVE")

\* C2 happens: a host build has run all three targets, the last after all-gdb
C2_Witness ==
    /\ stage = "compile" /\ pc = "returned" /\ xtarget = "NATIVE" /\ ~pretend
    /\ Len(make_log) = 3 /\ make_log[3].target = "all-ld"

\* C3: once a make of compile() has failed, it is the last make invoked (no
\* later target, no retry), __exit__ has been called, and compile() does not
\* return normally: it raises, and the make failure is in what it raises.
C3_MakeFailurePropagates ==
    \A k \in 1..Len(make_log) :
        make_log[k].result = "fail" =>
            /\ k = Len(make_log)
            /\ \A j \in 1..(k - 1) : make_log[j].target # make_log[k].target
            /\ exit_calls = 1
            /\ stage = "compile" /\ pc \in {"exit", "raised"}
            /\ "make" \in Range(exc)

\* C3 happens: all-binutils failed, the restore ran and compile() has raised
C3_Witness ==
    /\ stage = "compile" /\ pc = "raised" /\ exit_calls = 1
    /\ Len(make_log) = 1 /\ make_log[1].result = "fail"
    /\ \E p \in ProgramNames : Before[p] = "orig" /\ Now[p] = "orig"

\* C4: while a make of compile() runs, no program that was in the SDK binary
\* directory before compile() is there under its own name: it is there as
\* <name>.backup.
C4_SdkProgramsHiddenDuringMake ==
    (stage = "compile" /\ pc = "making" /\ ~pretend) =>
        \A p \in ProgramNames :
            exists(fs0["sdk_bindir"], p) =>
                /\ ~exists(fs["sdk_bindir"], p)
                /\ fs["sdk_bindir"][backup(p)] = fs0["sdk_bindir"][p]

\* beside C4: in the directory compile() does shadow, every program that was
\* there before is kept under <name>.backup while a make runs
C4_HiddenInShadowedDir ==
    (stage = "compile" /\ pc = "making" /\ ~pretend) =>
        \A p \in ProgramNames :
            exists(Before, p) => Now[p] # "orig" /\ Now[backup(p)] = "orig"

\* the install-gdb passes of install(), in order
Passes == SelectSeq(install_log, LAMBDA e : e.op = "run_make_install")

\* the install_file calls of install(), in order
Copies == SelectSeq(install_log, LAMBDA e : e.op = "install_file")

HybridTarget ==
    xtarget \in {"CHERIBSD_MIPS_HYBRID", "CHERIBSD_RISCV_HYBRID", "CHERIBSD_MORELLO_HYBRID"}

\* C5: in install() for a CheriBSD hybrid target, if the purecap rootfs exists
\* (and the first pass succeeded with a DESTDIR in its environment, the case in
\* which install() gets that far), a second install-gdb pass has run after the
\* first, in the same environment but with DESTDIR set to the purecap rootfs;
\* if the purecap rootfs does not exist, install-gdb has run once and a
\* successful first pass is followed by no error. For any other target
\* install-gdb has run once.
C5_PurecapSecondPass ==
    stage = "install" =>
        /\ Len(Passes) >= 1 /\ install_log[1] = Passes[1]
        /\ (HybridTarget /\ purecap_usr_exists /\ Passes[1].result = "ok"
                /\ "DESTDIR" \in DOMAIN Passes[1].env)
              => /\ Len(Passes) = 2
                 /\ Passes[2].target = "install-gdb"
                 /\ DOMAIN Passes[2].env = DOMAIN Passes[1].env
                 /\ \A k \in DOMAIN Passes[2].env :
                       Passes[2].env[k] = IF k = "DESTDIR" THEN "<purecap_rootfs>"
                                          ELSE Passes[1].env[k]
        /\ (HybridTarget /\ ~purecap_usr_exists)
              => /\ Len(Passes) = 1
                 /\ Passes[1].result = "ok" => pc = "returned" /\ exc = <<>>
        /\ ~HybridTarget => Len(Passes) = 1

\* C5 happens: a hybrid install with a purecap rootfs has made both passes
C5_Witness ==
    /\ stage = "install" /\ pc = "returned" /\ HybridTarget /\ purecap_usr_exists
    /\ Len(Passes) = 2 /\ Passes[1].env["DESTDIR"] = "<destdir>"

\* C6: in install() for a hybrid target whose purecap rootfs exists, with no
\* DESTDIR in the install environment, install() raises: once the first pass
\* has succeeded it is the assertion that fails, and no second pass is run.
C6_MissingDestdirIsFatal ==
    (stage = "install" /\ HybridTarget /\ purecap_usr_exists
        /\ "DESTDIR" \notin DOMAIN install_log[1].env)
      => /\ pc = "raised"
         /\ Len(Passes) = 1
         /\ Copies = <<>>
         /\ Passes[1].result = "ok" => exc = <<"AssertionError">>

\* C6 happens: the assertion has failed after a successful first pass
C6_Witness ==
    /\ stage = "install" /\ HybridTarget /\ purecap_usr_exists /\ destdir = "none"
    /\ Len(Passes) = 1 /\ Passes[1].result = "ok" /\ exc = <<"AssertionError">>

\* C7: an install() for the host that returns has copied, after the
\* install-gdb pass, the eight binutils to bin/g<name>, cxxfilt to gc++filt,
\* nm-new to gnm, strip-new to gstrip and ld-new to ld.bfd and to gld.bfd, and
\* nothing else; no copy is ever made before the install-gdb pass has
\* succeeded, and for any other target none is made at all.
C7_HostCopies ==
    stage = "install" =>
        /\ xtarget # "NATIVE" => Copies = <<>>
        /\ Copies # <<>> =>
              /\ install_log[1].op = "run_make_install" /\ install_log[1].result = "ok"
              /\ \A k \in 2..Len(install_log) : install_log[k].op = "install_file"
        /\ (xtarget = "NATIVE" /\ pc = "returned") =>
              {<<c.src, c.dst>> : c \in Range(Copies)} =
                 { <<"binutils/objdump", "bin/gobjdump">>, <<"binutils/objcopy", "bin/gobjcopy">>,
                   <<"binutils/addr2line", "bin/gaddr2line">>, <<"binutils/readelf", "bin/greadelf">>,
                   <<"binutils/ar", "bin/gar">>, <<"binutils/ranlib", "bin/granlib">>,
                   <<"binutils/size", "bin/gsize">>, <<"binutils/strings", "bin/gstrings">>,
                   <<"binutils/cxxfilt", "bin/gc++filt">>, <<"binutils/nm-new", "bin/gnm">>,
                   <<"binutils/strip-new", "bin/gstrip">>,
                   <<"ld/ld-new", "bin/ld.bfd">>, <<"ld/ld-new", "bin/gld.bfd">> }

\* C7 happens: a host install has returned with its thirteen copies made
C7_Witness ==
    /\ stage = "install" /\ pc = "returned" /\ xtarget = "NATIVE"
    /\ Len(Copies) = 13 /\ \A k \in 1..13 : Copies[k].result = "ok"

\* env holds every override setup() placed in the configure environment
HoldsSetupEnv(env) ==
    \A k \in DOMAIN setup_env : k \in DOMAIN env /\ env[k] = setup_env[k]

\* C8 as stated: every override setup() placed in the configure environment is
\* passed to the configure invocation and to every make invocation, whatever
\* the host and the target.
C8_EnvReachesConfigureAndMake ==
    /\ \A c \in Range(configure_log) : HoldsSetupEnv(c.env)
    /\ \A m \in Range(make_log) : HoldsSetupEnv(m.env)

\* C8, amended: every override of setup() is passed to every make invocation;
\* it is passed to the configure invocation too, unless the build is for the
\* host on macOS, where configure() runs with an empty environment mapping.
C8_EnvReachesMakeAndConfigureButOnMac ==
    /\ \A m \in Range(make_log) : HoldsSetupEnv(m.env)
    /\ \A c \in Range(configure_log) :
          IF xtarget = "NATIVE" /\ IS_MAC THEN c.env = EmptyEnv
          ELSE HoldsSetupEnv(c.env)
    /\ stage # "setup" => {"CC_FOR_BUILD", "CXX_FOR_BUILD", "CFLAGS_FOR_BUILD",
                           "CXXFLAGS_FOR_BUILD"} \subseteq DOMAIN setup_env

\* C8 happens: on a macOS host configure ran with nothing and make with all
C8_Witness ==
    /\ xtarget = "NATIVE" /\ IS_MAC /\ stage = "compile" /\ pc = "returned"
    /\ Len(configure_log) = 1 /\ configure_log[1].env = EmptyEnv
    /\ Len(make_log) = 3 /\ "MAKE" \in DOMAIN make_log[3].env

Count(seq, x) == Cardinality({k \in 1..Len(seq) : seq[k] = x})

\* C9: after setup(), configure_args holds exactly one of --enable-ld=yes and
\* --disable-ld; it holds --enable-ld=yes, --with-expat and --with-python=...
\* exactly if the target is the host, and --disable-ld, --without-python and
\* --without-expat, with -static in COMMON_FLAGS, exactly if it is not.
C9_LdAndPythonFlags ==
    stage # "setup" =>
        LET host == xtarget = "NATIVE"
            has(a) == a \in Range(configure_args)
        IN  /\ Count(configure_args, "--enable-ld=yes") + Count(configure_args, "--disable-ld") = 1
            /\ has("--enable-ld=yes") <=> host
            /\ has("--with-expat") <=> host
            /\ has("--with-python=<sys.executable>") <=> host
            /\ has("--disable-ld") <=> ~host
            /\ has("--without-python") <=> ~host
            /\ has("--without-expat") <=> ~host
            /\ "-static" \in Range(flags.COMMON_FLAGS) <=> ~host

\* C9 happens: setup() has run for a cross target
C9_Witness ==
    /\ stage = "configure" /\ xtarget = "CHERIBSD_MIPS_NO_CHERI"
    /\ "--disable-ld" \in Range(configure_args)
    /\ "-static" \in Range(flags.COMMON_FLAGS)

\* C10 as stated: when compile() returns, each program is in the shadowed
\* directory exactly if it was there before, and is then the original file.
C10_RoundTrip ==
    (stage = "compile" /\ pc = "returned") =>
        \A p \in ProgramNames :
            /\ exists(Now, p) <=> exists(Before, p)
            /\ exists(Now, p) => Now[p] = "orig"

\* C10, amended: when compile() returns, each program that was in the shadowed
\* directory before is there again and is the original file, whatever stale
\* backup was there and whatever make wrote. A program that was not there
\* before is there afterwards exactly if a stale <name>.backup was there, which
\* is then found under <name>, or if make wrote it; in a dry run nothing moves.
C10_OriginalsRoundTrip ==
    (stage = "compile" /\ pc = "returned") =>
        \A p \in ProgramNames :
            /\ Before[p] = "orig" => Now[p] = "orig"
            /\ (Before[p] = "absent" /\ ~pretend) =>
                  Now[p] = IF Before[backup(p)] = "stale" THEN "stale"
                           ELSE IF p \in make_written THEN "new"
                           ELSE "absent"
            /\ ~pretend => Now[backup(p)] = "absent"
            /\ pretend => fs = fs0

\* C10 happens: an original came back although make wrote a file of its name,
\* and a stale backup took a name that was free
C10_Witness ==
    /\ stage = "compile" /\ pc = "returned" /\ ~pretend
    /\ \E p \in ProgramNames :
          /\ Before[p] = "orig" /\ Now[p] = "orig" /\ p \in make_written
    /\ \E q \in ProgramNames :
          /\ Before[q] = "absent" /\ Before[backup(q)] = "stale" /\ Now[q] = "stale"

====
